---- MODULE Spec2Model ----
(***************************************************************************)
(* Token-based WebSocket relay (src/ws-server.js).                         *)
(*                                                                         *)
(* Two roles, "desktop" and "web", join a room with the same token; the    *)
(* server forwards signals between the two slots of a room and broadcasts  *)
(* a presence status.  Node runs every callback to completion, so each     *)
(* handler (connection, message, close, error) is one atomic action.       *)
(*                                                                         *)
(* The transport (the ws library) is the environment: it accepts sockets,  *)
(* delivers inbound frames, and moves readyState OPEN -> CLOSING -> CLOSED.*)
(* ws.send on a socket that is not OPEN delivers nothing (ws >= 7 hands    *)
(* the error to the optional callback, which the server never passes).     *)
(***************************************************************************)
EXTENDS Integers, Sequences, FiniteSets, TLC

\* ------------------------------------------------------------------ bounds
MaxConns == 3          \* transport connections accepted in one run

Conns == 1..MaxConns
Null == 0              \* JS null in a slot

\* ------------------------------------------------------- inputs (query string)
Absent == "<null>"     \* searchParams.get() of a missing parameter
QueryTokens == {Absent, "", "abc", "xyz"}
QueryRoles == {Absent, "", "phone", "desktop", "web"}
Roles == {"desktop", "web"}

\* Falsy that tests for a missing parameter only, so that token="" is admitted.
FalsyNullOnly(x) == x = Absent

\* JS falsiness of a string-or-null query parameter (the ! of line 51)
Falsy(x) == x = Absent \/ x = ""

\* ------------------------------------------------------- inputs (inbound frames)
Undefined == "<undefined>"
RawSignal1 == "{\"type\":\"signal\",\"name\":\"signal-1\"}"
RawSignal2 == "{\"type\":\"signal\",\"name\":\"signal-2\"}"
RawSignal3 == "{\"type\":\"signal\",\"name\":\"signal-3\"}"
RawPing == "{\"type\":\"ping\"}"
RawHello == "{\"type\":\"hello\"}"
RawEmptyObject == "{}"
RawNull == "null"
RawGarbage == "not json"
RawFrames == {RawSignal1, RawSignal2, RawSignal3, RawPing,
              RawHello, RawEmptyObject, RawNull, RawGarbage}

\* JSONparse that answers a falsy value where JSON.parse throws, so that the catch
\* of line 70 and its error reply are never reached.
JSONparseNoThrow(raw) ==
    CASE raw = RawSignal1 -> [threw |-> FALSE, truthy |-> TRUE, type |-> "signal", name |-> "signal-1"]
      [] raw = RawSignal2 -> [threw |-> FALSE, truthy |-> TRUE, type |-> "signal", name |-> "signal-2"]
      [] raw = RawSignal3 -> [threw |-> FALSE, truthy |-> TRUE, type |-> "signal", name |-> "signal-3"]
      [] raw = RawPing -> [threw |-> FALSE, truthy |-> TRUE, type |-> "ping", name |-> Undefined]
      [] raw = RawHello -> [threw |-> FALSE, truthy |-> TRUE, type |-> "hello", name |-> Undefined]
      [] raw = RawEmptyObject -> [threw |-> FALSE, truthy |-> TRUE, type |-> Undefined, name |-> Undefined]
      [] OTHER -> [threw |-> FALSE, truthy |-> FALSE, type |-> Undefined, name |-> Undefined]

\* JSON.parse(raw.toString()) of line 70: threw tells whether it threw; truthy is
\* the truthiness of the parsed value; type and name are msg.type and msg.name.
JSONparse(raw) ==
    CASE raw = RawSignal1 -> [threw |-> FALSE, truthy |-> TRUE, type |-> "signal", name |-> "signal-1"]
      [] raw = RawSignal2 -> [threw |-> FALSE, truthy |-> TRUE, type |-> "signal", name |-> "signal-2"]
      [] raw = RawSignal3 -> [threw |-> FALSE, truthy |-> TRUE, type |-> "signal", name |-> "signal-3"]
      [] raw = RawPing -> [threw |-> FALSE, truthy |-> TRUE, type |-> "ping", name |-> Undefined]
      [] raw = RawHello -> [threw |-> FALSE, truthy |-> TRUE, type |-> "hello", name |-> Undefined]
      [] raw = RawEmptyObject -> [threw |-> FALSE, truthy |-> TRUE, type |-> Undefined, name |-> Undefined]
      [] raw = RawNull -> [threw |-> FALSE, truthy |-> FALSE, type |-> Undefined, name |-> Undefined]
      [] OTHER -> [threw |-> TRUE, truthy |-> FALSE, type |-> Undefined, name |-> Undefined]

\* ------------------------------------------------------- outbound frames
ErrorFrame(message) == [type |-> "error", message |-> message]
ConnectedFrameSwapped(role, token) == [type |-> "connected", role |-> token, token |-> role]
ConnectedFrame(role, token) == [type |-> "connected", role |-> role, token |-> token]
StatusFrame(desktop, web) == [type |-> "status", desktop |-> desktop, web |-> web]
SignalFrame(name) == [type |-> "signal", name |-> name]
PongFrameEcho == [type |-> "ping"]
PongFrame == [type |-> "pong"]

\* ------------------------------------------------------- close codes
NoClose == [code |-> 0, reason |-> ""]
PolicyViolation == [code |-> 1008, reason |-> "Invalid token/role"]
Replaced == [code |-> 4000, reason |-> "Replaced by new connection"]

\* ------------------------------------------------------------------ state
VARIABLES
    rooms,        \* the Map token -> [desktop, web], each a connection or Null
    readyState,   \* ws.readyState of each connection; "NONE" before it is accepted
    params,       \* the token and role the connection handler read for it
    handlers,     \* whether the message/close/error listeners are attached
    closeArgs,    \* the code and reason the server passed to ws.close(), NoClose if never
    receiving,    \* whether the transport can still deliver frames to the listeners
    sent          \* the frames the last callback delivered, in order: [to, frame]

vars == <<rooms, readyState, params, handlers, closeArgs, receiving, sent>>

Init ==
    /\ rooms = <<>>
    /\ readyState = [c \in Conns |-> "NONE"]
    /\ params = [c \in Conns |-> [token |-> Absent, role |-> Absent]]
    /\ handlers = [c \in Conns |-> FALSE]
    /\ closeArgs = [c \in Conns |-> NoClose]
    /\ receiving = [c \in Conns |-> FALSE]
    /\ sent = <<>>

\* ------------------------------------------------------------------ helpers
\* ws.send(payload): delivered only while the socket is OPEN.
send(out, rs, ws, frame) ==
    IF rs[ws] = "OPEN" THEN Append(out, [to |-> ws, frame |-> frame]) ELSE out

\* isOpen without the readyState test.
isOpenAnyState(rs, ws) == ws # Null

\* The guard "ws && ws.readyState === OPEN" of lines 32, 60 and 78.
isOpen(rs, ws) == ws # Null /\ rs[ws] = "OPEN"

\* close that leaves the socket as it is.
closeNothing(rs, ws) == rs

\* ws.close(code, reason) called by the server on an OPEN socket.
close(rs, ws) == [rs EXCEPT ![ws] = IF @ = "OPEN" THEN "CLOSING" ELSE @]

getOrCreateRoom(rms, token) ==
    IF token \in DOMAIN rms
    THEN rms
    ELSE [t \in DOMAIN rms \cup {token} |->
            IF t = token THEN [desktop |-> Null, web |-> Null] ELSE rms[t]]

\* cleanupSocket whose assignment is lost.
cleanupSocketNothing(rms, token, role) == rms

\* cleanupSocket that also deletes a room left with two empty slots.
cleanupSocketPrune(rms, token, role) ==
    LET cleared == [rms EXCEPT ![token] = [@ EXCEPT ![role] = Null]]
    IN  IF cleared[token].desktop = Null /\ cleared[token].web = Null
        THEN [t \in DOMAIN rms \ {token} |-> cleared[t]]
        ELSE cleared

cleanupSocket(rms, token, role) ==
    [rms EXCEPT ![token] = [@ EXCEPT ![role] = Null]]

\* One recipient of the loop of lines 31-35.
sendIfOpen(out, rs, ws, frame) ==
    IF isOpen(rs, ws) THEN Append(out, [to |-> ws, frame |-> frame]) ELSE out

\* broadcastStatus whose loop visits the web slot only.
broadcastStatusWebOnly(out, rms, rs, token) ==
    IF token \notin DOMAIN rms
    THEN out
    ELSE LET room == rms[token]
             statusPayload == StatusFrame(room.desktop # Null, room.web # Null)
         IN  sendIfOpen(out, rs, room.web, statusPayload)

\* broadcastStatus that walks the whole registry instead of one room.
broadcastStatusEveryRoom(out, rms, rs, token) ==
    LET one(o, t) ==
            IF t \notin DOMAIN rms
            THEN o
            ELSE LET statusPayload == StatusFrame(rms[t].desktop # Null, rms[t].web # Null)
                 IN  sendIfOpen(sendIfOpen(o, rs, rms[t].desktop, statusPayload),
                                rs, rms[t].web, statusPayload)
    IN  one(one(out, "abc"), "xyz")

broadcastStatus(out, rms, rs, token) ==
    IF token \notin DOMAIN rms
    THEN out
    ELSE LET room == rms[token]
             statusPayload == StatusFrame(room.desktop # Null, room.web # Null)
         IN  sendIfOpen(sendIfOpen(out, rs, room.desktop, statusPayload),
                        rs, room.web, statusPayload)

\* peerRoleOf that answers the sender's own role.
peerRoleOwn(role) == role

\* The peer role of line 76.
peerRoleOf(role) == IF role = "desktop" THEN "web" ELSE "desktop"

\* ------------------------------------------------------------------ actions
\* wss.on('connection'), rejected branch (lines 51-55).
Reject(c, token, role) ==
    /\ readyState[c] = "NONE"
    /\ \A d \in Conns : d < c => readyState[d] # "NONE"
    /\ Falsy(token) \/ Falsy(role) \/ role \notin Roles
    /\ LET rs0 == [readyState EXCEPT ![c] = "OPEN"]
       IN  /\ sent' = send(<<>>, rs0, c, ErrorFrame("Invalid token or role"))
           /\ readyState' = close(rs0, c)
    /\ closeArgs' = [closeArgs EXCEPT ![c] = PolicyViolation]
    /\ UNCHANGED <<rooms, params, handlers, receiving>>

\* The admitted branch with the install of line 64 moved before the kick of lines
\* 60-62, so that the socket it closes is the new one.
AdmitInstallFirst(c, token, role) ==
    /\ readyState[c] = "NONE"
    /\ \A d \in Conns : d < c => readyState[d] # "NONE"
    /\ ~(Falsy(token) \/ Falsy(role) \/ role \notin Roles)
    /\ LET rooms1 == getOrCreateRoom(rooms, token)
           rs0 == [readyState EXCEPT ![c] = "OPEN"]
           rooms2 == [rooms1 EXCEPT ![token] = [@ EXCEPT ![role] = c]]
           prev == rooms2[token][role]
           kick == isOpen(rs0, prev)
           rs1 == IF kick THEN close(rs0, prev) ELSE rs0
           sent1 == send(<<>>, rs1, c, ConnectedFrame(role, token))
       IN  /\ rooms' = rooms2
           /\ readyState' = rs1
           /\ closeArgs' = IF kick THEN [closeArgs EXCEPT ![prev] = Replaced] ELSE closeArgs
           /\ sent' = broadcastStatus(sent1, rooms2, rs1, token)
    /\ params' = [params EXCEPT ![c] = [token |-> token, role |-> role]]
    /\ handlers' = [handlers EXCEPT ![c] = TRUE]
    /\ receiving' = [receiving EXCEPT ![c] = TRUE]

\* wss.on('connection'), admitted branch (lines 57-100).
Admit(c, token, role) ==
    /\ readyState[c] = "NONE"
    /\ \A d \in Conns : d < c => readyState[d] # "NONE"
    /\ ~(Falsy(token) \/ Falsy(role) \/ role \notin Roles)
    /\ LET rooms1 == getOrCreateRoom(rooms, token)
           prev == rooms1[token][role]
           rs0 == [readyState EXCEPT ![c] = "OPEN"]
           kick == isOpen(rs0, prev)
           rs1 == IF kick THEN close(rs0, prev) ELSE rs0
           rooms2 == [rooms1 EXCEPT ![token] = [@ EXCEPT ![role] = c]]
           sent1 == send(<<>>, rs1, c, ConnectedFrame(role, token))
       IN  /\ rooms' = rooms2
           /\ readyState' = rs1
           /\ closeArgs' = IF kick THEN [closeArgs EXCEPT ![prev] = Replaced] ELSE closeArgs
           /\ sent' = broadcastStatus(sent1, rooms2, rs1, token)
    /\ params' = [params EXCEPT ![c] = [token |-> token, role |-> role]]
    /\ handlers' = [handlers EXCEPT ![c] = TRUE]
    /\ receiving' = [receiving EXCEPT ![c] = TRUE]

\* wss.on('connection') (lines 45-101): one callback, two branches.
connection(c, token, role) == Reject(c, token, role) \/ Admit(c, token, role)

\* The message callback with an error reply for a type it does not recognise.
MessageStrict(c, raw) ==
    /\ handlers[c]
    /\ receiving[c]
    /\ LET msg == JSONparse(raw)
           peer == rooms[params[c].token][peerRoleOf(params[c].role)]
       IN  sent' =
             IF msg.threw
             THEN send(<<>>, readyState, c, ErrorFrame("Invalid JSON"))
             ELSE IF msg.truthy /\ msg.type = "signal"
                     /\ (msg.name = "signal-1" \/ msg.name = "signal-2")
             THEN IF isOpen(readyState, peer)
                  THEN send(<<>>, readyState, peer, SignalFrame(msg.name))
                  ELSE send(<<>>, readyState, c, ErrorFrame("Peer not connected"))
             ELSE IF msg.truthy /\ msg.type = "ping"
             THEN send(<<>>, readyState, c, PongFrame)
             ELSE send(<<>>, readyState, c, ErrorFrame("Unknown type"))
    /\ UNCHANGED <<rooms, readyState, params, handlers, closeArgs, receiving>>

\* The message callback with a status broadcast after the heartbeat reply.
MessageThenBroadcast(c, raw) ==
    /\ handlers[c]
    /\ receiving[c]
    /\ LET msg == JSONparse(raw)
           peer == rooms[params[c].token][peerRoleOf(params[c].role)]
       IN  sent' =
             IF msg.threw
             THEN send(<<>>, readyState, c, ErrorFrame("Invalid JSON"))
             ELSE IF msg.truthy /\ msg.type = "signal"
                     /\ (msg.name = "signal-1" \/ msg.name = "signal-2")
             THEN IF isOpen(readyState, peer)
                  THEN send(<<>>, readyState, peer, SignalFrame(msg.name))
                  ELSE send(<<>>, readyState, c, ErrorFrame("Peer not connected"))
             ELSE IF msg.truthy /\ msg.type = "ping"
             THEN broadcastStatus(send(<<>>, readyState, c, PongFrame),
                                  rooms, readyState, params[c].token)
             ELSE <<>>
    /\ UNCHANGED <<rooms, readyState, params, handlers, closeArgs, receiving>>

\* ws.on('message') (lines 68-90).
Message(c, raw) ==
    /\ handlers[c]
    /\ receiving[c]
    /\ LET msg == JSONparse(raw)
           role == params[c].role
           room == rooms[params[c].token]
           peerRole == peerRoleOf(role)
           peer == room[peerRole]
       IN  sent' =
             IF msg.threw
             THEN send(<<>>, readyState, c, ErrorFrame("Invalid JSON"))
             ELSE IF msg.truthy /\ msg.type = "signal"
                     /\ (msg.name = "signal-1" \/ msg.name = "signal-2")
             THEN IF isOpen(readyState, peer)
                  THEN send(<<>>, readyState, peer, SignalFrame(msg.name))
                  ELSE send(<<>>, readyState, c, ErrorFrame("Peer not connected"))
             ELSE IF msg.truthy /\ msg.type = "ping"
             THEN send(<<>>, readyState, c, PongFrame)
             ELSE <<>>
    /\ UNCHANGED <<rooms, readyState, params, handlers, closeArgs, receiving>>

\* The transport receives the client's close frame, or the client's answer to the
\* server's: readyState becomes CLOSING, no further inbound frame is delivered, and
\* no listener of the server runs until the close event.
closeFrameReceived(c) ==
    /\ receiving[c]
    /\ readyState' = [readyState EXCEPT ![c] = "CLOSING"]
    /\ receiving' = [receiving EXCEPT ![c] = FALSE]
    /\ sent' = <<>>
    /\ UNCHANGED <<rooms, params, handlers, closeArgs>>

\* ws.on('error') (lines 97-100): the library sets CLOSING before it emits error.
ErrorEvent(c) ==
    /\ handlers[c]
    /\ receiving[c]
    /\ LET rs1 == [readyState EXCEPT ![c] = "CLOSING"]
           rooms1 == cleanupSocket(rooms, params[c].token, params[c].role)
       IN  /\ readyState' = rs1
           /\ rooms' = rooms1
           /\ sent' = broadcastStatus(<<>>, rooms1, rs1, params[c].token)
    /\ receiving' = [receiving EXCEPT ![c] = FALSE]
    /\ UNCHANGED <<params, handlers, closeArgs>>

\* ws.on('close') (lines 92-95): the library sets CLOSED before it emits close.
CloseEvent(c) ==
    /\ handlers[c]
    /\ readyState[c] \in {"OPEN", "CLOSING"}
    /\ LET rs1 == [readyState EXCEPT ![c] = "CLOSED"]
           rooms1 == cleanupSocket(rooms, params[c].token, params[c].role)
       IN  /\ readyState' = rs1
           /\ rooms' = rooms1
           /\ sent' = broadcastStatus(<<>>, rooms1, rs1, params[c].token)
    /\ receiving' = [receiving EXCEPT ![c] = FALSE]
    /\ UNCHANGED <<params, handlers, closeArgs>>

\* The tokens a new connection may present.  Tokens are opaque to the server, so
\* the first room of a run is named "abc" and "xyz" names the second.
NextTokens == IF "abc" \in DOMAIN rooms THEN QueryTokens ELSE QueryTokens \ {"xyz"}

Next ==
    \/ \E c \in Conns, token \in NextTokens, role \in QueryRoles : connection(c, token, role)
    \/ \E c \in Conns, raw \in RawFrames : Message(c, raw)
    \/ \E c \in Conns : closeFrameReceived(c)
    \/ \E c \in Conns : ErrorEvent(c)
    \/ \E c \in Conns : CloseEvent(c)

Spec == Init /\ [][Next]_vars

\* ------------------------------------------------------------------ observers
Open(c) == readyState[c] = "OPEN"

\* The frames a callback delivered to connection c, in order.
FramesTo(out, c) ==
    LET sel == SelectSeq(out, LAMBDA m : m.to = c)
    IN  [i \in 1..Len(sel) |-> sel[i].frame]

StatusTo(out, c) == SelectSeq(FramesTo(out, c), LAMBDA f : f.type = "status")

\* Connection c was admitted for (token, role).
AdmittedFor(c, token, role) ==
    handlers[c] /\ params[c].token = token /\ params[c].role = role

Tokens == QueryTokens \ {Absent, ""}

\* What every step of the connection callback for c does, and no other step.
Accepted(c) == readyState[c] = "NONE" /\ readyState'[c] # "NONE"

\* What every step of the message callback leaves alone.
Routed == UNCHANGED <<rooms, readyState, params, handlers, closeArgs, receiving>>

\* ------------------------------------------------------------------ C1
\* C1: when the close or error event of an admitted connection c for (T,R) is
\* handled, slot (T,R) is cleared only if it holds c itself; a slot that holds
\* another connection (the replacement of an evicted c) is left as it is.
C1_TeardownIdentity ==
    [][\A c \in Conns :
         (CloseEvent(c) \/ ErrorEvent(c)) =>
            LET T == params[c].token
                R == params[c].role
            IN  rooms[T][R] # c => rooms'[T][R] = rooms[T][R]]_vars

\* ------------------------------------------------------------------ C2
\* C2: after every admission (with its eviction), close or error event for token T,
\* every connection that is open and was admitted to T's room receives exactly one
\* status frame, whose fields tell which slots of the room are occupied after the
\* event.
C2_BroadcastComplete ==
    [][\A c \in Conns :
         ((\E t \in QueryTokens, r \in QueryRoles : Admit(c, t, r))
             \/ CloseEvent(c) \/ ErrorEvent(c)) =>
            LET T == params'[c].token
            IN  \A d \in Conns :
                  (handlers'[d] /\ params'[d].token = T /\ readyState'[d] = "OPEN") =>
                     StatusTo(sent', d) =
                        <<StatusFrame(rooms'[T].desktop # Null, rooms'[T].web # Null)>>]_vars

\* ------------------------------------------------------------------ C3
\* C3: for every token T and role R, at most one connection admitted for (T,R) has
\* an open transport.
C3_SlotUnique ==
    \A T \in Tokens, R \in Roles :
        Cardinality({c \in Conns : AdmittedFor(c, T, R) /\ Open(c)}) <= 1

\* ------------------------------------------------------------------ C4
\* C4: admitting c for a (T,R) whose slot holds an open connection p closes p with
\* code 4000 and reason "Replaced by new connection" in the same step that installs
\* c: after the step p is no longer open and the slot holds c, which is open.
C4_EvictionAtomic ==
    [][\A c \in Conns, T \in Tokens, R \in Roles :
         (Accepted(c) /\ connection(c, T, R) /\ T \in DOMAIN rooms) =>
            LET p == rooms[T][R]
            IN  (p # Null /\ Open(p)) =>
                   /\ readyState'[p] = "CLOSING"
                   /\ closeArgs'[p] = [code |-> 4000, reason |-> "Replaced by new connection"]
                   /\ rooms'[T][R] = c
                   /\ readyState'[c] = "OPEN"]_vars

\* A replacement has just been installed over an evicted connection.
C4_Witness ==
    \E p \in Conns, c \in Conns :
        /\ p # c
        /\ closeArgs[p].code = 4000
        /\ readyState[p] = "CLOSING"
        /\ handlers[c] /\ params[c] = params[p]
        /\ rooms[params[c].token][params[c].role] = c
        /\ Len(sent) > 0 /\ sent[1] = [to |-> c, frame |-> ConnectedFrame(params[c].role, params[c].token)]

\* ------------------------------------------------------------------ C5
\* C5: a connection whose token is absent or empty, or whose role is absent or not
\* desktop/web, receives exactly one error frame, is closed with 1008 and reason
\* "Invalid token/role", is installed in no slot, and leaves the registry unchanged.
C5_Rejection ==
    [][\A c \in Conns, t \in QueryTokens, r \in QueryRoles :
         (Accepted(c) /\ (t \in {Absent, ""} \/ r \notin {"desktop", "web"})
             /\ connection(c, t, r)) =>
            /\ sent' = <<[to |-> c, frame |-> [type |-> "error", message |-> "Invalid token or role"]]>>
            /\ closeArgs'[c] = [code |-> 1008, reason |-> "Invalid token/role"]
            /\ readyState'[c] = "CLOSING"
            /\ rooms' = rooms
            /\ ~handlers'[c]
            /\ \A T \in DOMAIN rooms', R \in Roles : rooms'[T][R] # c]_vars

\* A rejected connection holds the policy-violation close and no room exists.
C5_Witness ==
    \E c \in Conns :
        /\ closeArgs[c].code = 1008
        /\ readyState[c] = "CLOSING"
        /\ sent = <<[to |-> c, frame |-> ErrorFrame("Invalid token or role")]>>
        /\ DOMAIN rooms = {}

\* ------------------------------------------------------------------ C6
\* C6: an admitted connection receives exactly one connected frame, carrying its
\* own role and token, before any status frame; a connected frame is delivered only
\* to the connection being admitted; a desktop admitted to a fresh token receives
\* connected{desktop, token} and then status{desktop: true, web: false}.
C6_ConnectedFirst ==
    [][/\ \A c \in Conns, T \in Tokens, R \in Roles :
            (Accepted(c) /\ connection(c, T, R)) =>
               LET got == FramesTo(sent', c)
               IN  /\ Len(got) = 2
                   /\ got[1] = [type |-> "connected", role |-> R, token |-> T]
                   /\ got[2].type = "status"
                   /\ (T \notin DOMAIN rooms /\ R = "desktop") =>
                         got[2] = [type |-> "status", desktop |-> TRUE, web |-> FALSE]
       /\ \A i \in DOMAIN sent' :
            sent'[i].frame.type = "connected" =>
               /\ i = 1
               /\ readyState[sent'[i].to] = "NONE"
               /\ handlers'[sent'[i].to]]_vars

\* A desktop has just been admitted to a fresh token.
C6_Witness ==
    \E c \in Conns :
        /\ sent = <<[to |-> c, frame |-> ConnectedFrame("desktop", "abc")],
                    [to |-> c, frame |-> StatusFrame(TRUE, FALSE)]>>
        /\ rooms = [t \in {"abc"} |-> [desktop |-> c, web |-> Null]]

\* ------------------------------------------------------------------ C7
\* C7: when role R is admitted to a token whose peer slot holds an open connection
\* d, the new connection receives connected and then status{true, true}, and d
\* receives exactly one frame, status{true, true}.
C7_PeerJoin ==
    [][\A c \in Conns, T \in Tokens, R \in Roles :
         (Accepted(c) /\ connection(c, T, R) /\ T \in DOMAIN rooms) =>
            LET d == rooms[T][IF R = "web" THEN "desktop" ELSE "web"]
            IN  (d # Null /\ Open(d)) =>
                   /\ FramesTo(sent', c) =
                         <<[type |-> "connected", role |-> R, token |-> T],
                           [type |-> "status", desktop |-> TRUE, web |-> TRUE]>>
                   /\ FramesTo(sent', d) =
                         <<[type |-> "status", desktop |-> TRUE, web |-> TRUE]>>]_vars

\* A web connection has just joined an open desktop.
C7_Witness ==
    \E d \in Conns, c \in Conns :
        /\ AdmittedFor(d, "abc", "desktop") /\ Open(d)
        /\ AdmittedFor(c, "abc", "web") /\ Open(c)
        /\ rooms["abc"] = [desktop |-> d, web |-> c]
        /\ sent = <<[to |-> c, frame |-> ConnectedFrame("web", "abc")],
                    [to |-> d, frame |-> StatusFrame(TRUE, TRUE)],
                    [to |-> c, frame |-> StatusFrame(TRUE, TRUE)]>>

\* ------------------------------------------------------------------ C8
\* C8: when a connection sends signal{name}, name signal-1 or signal-2, and the
\* peer role's slot of its room holds an open connection, that connection receives
\* exactly one signal frame with the same name and nobody else receives a frame.
C8_SignalForwarded ==
    [][\A c \in Conns, n \in {1, 2} :
         LET raw == IF n = 1 THEN RawSignal1 ELSE RawSignal2
             name == IF n = 1 THEN "signal-1" ELSE "signal-2"
         IN  (Routed /\ Message(c, raw)) =>
                LET peer == rooms[params[c].token][IF params[c].role = "web"
                                                   THEN "desktop" ELSE "web"]
                IN  (peer # Null /\ Open(peer)) =>
                       /\ sent' = <<[to |-> peer, frame |-> [type |-> "signal", name |-> name]]>>
                       /\ peer # c]_vars

\* A desktop's signal-2 has just reached the web connection of its room.
C8_Witness ==
    \E d \in Conns, w \in Conns :
        /\ AdmittedFor(d, "abc", "desktop") /\ Open(d)
        /\ AdmittedFor(w, "abc", "web") /\ Open(w)
        /\ rooms["abc"] = [desktop |-> d, web |-> w]
        /\ sent = <<[to |-> w, frame |-> SignalFrame("signal-2")]>>

\* ------------------------------------------------------------------ C9
\* C9: when an open admitted connection sends a valid signal and the peer slot is
\* empty or holds a connection that is not open, the sender receives exactly one
\* error frame "Peer not connected", nobody else receives a frame and no state
\* keeps the signal; a signal frame is only ever delivered to a connection that
\* held a slot and was open when the signal was handled, never to one admitted
\* later.
C9_PeerAbsent ==
    [][/\ \A c \in Conns, raw \in {RawSignal1, RawSignal2} :
            (Routed /\ Open(c) /\ Message(c, raw)) =>
               LET peer == rooms[params[c].token][IF params[c].role = "web"
                                                  THEN "desktop" ELSE "web"]
               IN  (peer = Null \/ ~Open(peer)) =>
                      /\ sent' = <<[to |-> c, frame |-> [type |-> "error",
                                                        message |-> "Peer not connected"]]>>
                      /\ Routed
       /\ \A i \in DOMAIN sent' :
            sent'[i].frame.type = "signal" =>
               LET p == sent'[i].to
               IN  /\ readyState[p] = "OPEN"
                   /\ handlers[p]
                   /\ rooms[params[p].token][params[p].role] = p]_vars

\* A desktop alone in its room has just been told that its peer is not connected.
C9_Witness ==
    \E d \in Conns :
        /\ AdmittedFor(d, "abc", "desktop") /\ Open(d)
        /\ rooms["abc"].web = Null
        /\ sent = <<[to |-> d, frame |-> ErrorFrame("Peer not connected")]>>

\* ------------------------------------------------------------------ C10
\* C10: a ping from an open admitted connection yields exactly one pong frame to
\* that sender, no frame to anybody else, no status frame, and no change of state.
C10_Heartbeat ==
    [][\A c \in Conns :
         (Routed /\ Open(c) /\ Message(c, RawPing)) =>
            /\ sent' = <<[to |-> c, frame |-> [type |-> "pong"]]>>
            /\ Routed]_vars

\* A web connection with an open desktop peer has just been answered pong.
C10_Witness ==
    \E d \in Conns, w \in Conns :
        /\ AdmittedFor(d, "abc", "desktop") /\ Open(d)
        /\ AdmittedFor(w, "abc", "web") /\ Open(w)
        /\ rooms["abc"] = [desktop |-> d, web |-> w]
        /\ sent = <<[to |-> w, frame |-> PongFrame]>>

\* ------------------------------------------------------------------ C11
\* C11: a frame that does not parse, from an open admitted connection, yields
\* exactly one error frame "Invalid JSON" to the sender and nothing else; the
\* connection stays open with its listeners, no room or slot changes, and a ping
\* sent next on that connection is answered with exactly one pong.
C11_ParseErrorRecoverable ==
    [][\A c \in Conns :
         /\ (Routed /\ Open(c) /\ Message(c, RawGarbage)) =>
               /\ sent' = <<[to |-> c, frame |-> [type |-> "error", message |-> "Invalid JSON"]]>>
               /\ rooms' = rooms
               /\ readyState'[c] = "OPEN" /\ handlers'[c] /\ receiving'[c]
         /\ (sent = <<[to |-> c, frame |-> [type |-> "error", message |-> "Invalid JSON"]]>>
               /\ Routed /\ Message(c, RawPing)) =>
               sent' = <<[to |-> c, frame |-> [type |-> "pong"]]>>]_vars

\* A connection has just been told that its frame was not JSON, and can still send.
C11_Witness ==
    \E c \in Conns :
        /\ sent = <<[to |-> c, frame |-> ErrorFrame("Invalid JSON")]>>
        /\ Open(c) /\ handlers[c] /\ receiving[c]
        /\ ENABLED Message(c, RawPing)

\* ------------------------------------------------------------------ C12
\* C12: a frame that parses and whose type is neither signal nor ping (another
\* type, no type, or a value that is no object) sends no frame to anybody and
\* changes no room, slot or connection.
C12_UnrecognizedNoop ==
    [][\A c \in Conns, raw \in {RawHello, RawEmptyObject, RawNull} :
         (Routed /\ Message(c, raw)) => (sent' = <<>> /\ rooms' = rooms /\ Routed)]_vars

\* Two open, paired connections and nobody else: only a frame that the callback
\* ignores leaves them with nothing sent.
C12_Witness ==
    \E d \in Conns, w \in Conns :
        /\ AdmittedFor(d, "abc", "desktop") /\ Open(d) /\ receiving[d]
        /\ AdmittedFor(w, "abc", "web") /\ Open(w) /\ receiving[w]
        /\ \A x \in Conns \ {d, w} : readyState[x] = "NONE"
        /\ rooms["abc"] = [desktop |-> d, web |-> w]
        /\ sent = <<>>

\* ------------------------------------------------------------------ C13
\* C13: once the close or error event of a connection has been handled, no slot of
\* any room holds that connection, in that state and in every later one.
InNoSlot(rms, c) == \A T \in DOMAIN rms, R \in Roles : rms[T][R] # c

C13_ClosedHoldsNoSlot ==
    [][\A c \in Conns :
         /\ (CloseEvent(c) \/ ErrorEvent(c)) => InNoSlot(rooms', c)
         /\ (readyState[c] # "NONE" /\ InNoSlot(rooms, c)) => InNoSlot(rooms', c)
         /\ readyState'[c] = "CLOSED" => InNoSlot(rooms', c)]_vars

\* A connection that held a slot has closed and its room is left with the peer only.
C13_Witness ==
    \E d \in Conns, w \in Conns :
        /\ AdmittedFor(d, "abc", "desktop") /\ readyState[d] = "CLOSED"
        /\ AdmittedFor(w, "abc", "web") /\ Open(w)
        /\ rooms["abc"] = [desktop |-> Null, web |-> w]
        /\ sent = <<[to |-> w, frame |-> StatusFrame(FALSE, TRUE)]>>

\* ------------------------------------------------------------------ C14
\* C14: a room exists for token T if and only if some connection with token T has
\* been admitted; no step removes a room.
C14_RoomLifecycle ==
    [][/\ DOMAIN rooms' = {params'[c].token : c \in {x \in Conns : handlers'[x]}}
       /\ DOMAIN rooms \subseteq DOMAIN rooms']_vars

\* The room of a token outlives its only connection, and a rejected connection
\* has created none.
C14_Witness ==
    \E c \in Conns, x \in Conns :
        /\ AdmittedFor(c, "abc", "desktop") /\ readyState[c] = "CLOSED"
        /\ closeArgs[x].code = 1008
        /\ rooms = [t \in {"abc"} |-> [desktop |-> Null, web |-> Null]]

\* ------------------------------------------------------------------ C15
\* C15: in every status frame the desktop (web) field is true if and only if, when
\* the frame is sent, the desktop (web) slot of the recipient's room holds a
\* connection whose transport is open.
C15_StatusOpenOccupancy ==
    [][\A i \in DOMAIN sent' :
         sent'[i].frame.type = "status" =>
            LET room == rooms'[params'[sent'[i].to].token]
            IN  /\ sent'[i].frame.desktop =
                      (room.desktop # Null /\ readyState'[room.desktop] = "OPEN")
                /\ sent'[i].frame.web =
                      (room.web # Null /\ readyState'[room.web] = "OPEN")]_vars

\* ------------------------------------------------------------------ C16
\* C16: a connection moves only Connecting -> Authenticated -> Closed, or
\* Connecting -> Closed when it is rejected; Closed is terminal; a connection
\* becomes the occupant of a slot only in the step that authenticates it.
Phase(rs, c) ==
    IF rs[c] = "NONE" THEN "Connecting"
    ELSE IF rs[c] = "OPEN" THEN "Authenticated"
    ELSE "Closed"

C16_StateMachine ==
    [][\A c \in Conns :
         LET p == Phase(readyState, c)
             q == Phase(readyState', c)
         IN  /\ p = "Authenticated" => q \in {"Authenticated", "Closed"}
             /\ p = "Closed" => q = "Closed"
             /\ (p = "Connecting" /\ q = "Closed") =>
                   /\ ~handlers'[c]
                   /\ closeArgs'[c].code = 1008
                   /\ InNoSlot(rooms', c)
             /\ (p = "Connecting" /\ q = "Authenticated") => handlers'[c]
             /\ (InNoSlot(rooms, c) /\ ~InNoSlot(rooms', c)) =>
                   (p = "Connecting" /\ q = "Authenticated")
             /\ handlers[c] => handlers'[c]]_vars

\* One connection was rejected, one was authenticated and evicted by a third.
C16_Witness ==
    \E x \in Conns, p \in Conns, c \in Conns :
        /\ Phase(readyState, x) = "Closed" /\ ~handlers[x]
        /\ Phase(readyState, p) = "Closed" /\ handlers[p] /\ closeArgs[p].code = 4000
        /\ Phase(readyState, c) = "Authenticated" /\ handlers[c]
        /\ rooms[params[c].token][params[c].role] = c

\* ------------------------------------------------------------------ C17
\* C17: handling an inbound frame, whatever it is, leaves the registry and every
\* slot unchanged and sends no status frame; a status frame is sent only by the
\* connection, close and error callbacks.
C17_RoutingNoOccupancyEffect ==
    [][/\ \A c \in Conns, raw \in RawFrames :
            (Routed /\ Message(c, raw)) =>
               /\ rooms' = rooms
               /\ \A i \in DOMAIN sent' : sent'[i].frame.type # "status"
       /\ (\E i \in DOMAIN sent' : sent'[i].frame.type = "status") =>
            \E c \in Conns :
               \/ Accepted(c) /\ handlers'[c]
               \/ CloseEvent(c)
               \/ ErrorEvent(c)]_vars

\* A ping has just been answered in a paired room: one pong and no status.
C17_Witness ==
    \E d \in Conns, w \in Conns :
        /\ AdmittedFor(d, "abc", "desktop") /\ Open(d)
        /\ AdmittedFor(w, "abc", "web") /\ Open(w)
        /\ rooms["abc"] = [desktop |-> d, web |-> w]
        /\ sent = <<[to |-> d, frame |-> PongFrame]>>

\* ------------------------------------------------------------------ C18
\* C18: a connection admitted for (T,R) whose transport is open and after which no
\* other connection was admitted for (T,R) is the occupant of slot (T,R).
\* Connections are numbered in the order in which they are accepted.
C18_CurrentOccupant ==
    \A c \in Conns :
        (/\ handlers[c] /\ Open(c)
         /\ ~\E d \in Conns : d > c /\ handlers[d] /\ params[d] = params[c])
        => rooms[params[c].token][params[c].role] = c

\* ------------------------------------------------------------------ C19
\* C19: an event of a connection with token T (its admission, a frame it sends, its
\* close or its error) changes no slot of another token's room and sends frames
\* only to connections admitted under T; a rejected connection changes no room and
\* only it receives a frame; a signal is delivered only to a connection of the
\* sender's token and of the opposite role.
OthersUntouched(T) == \A U \in DOMAIN rooms \ {T} : U \in DOMAIN rooms' /\ rooms'[U] = rooms[U]

OnlyToToken(T) == \A i \in DOMAIN sent' : params'[sent'[i].to].token = T

C19_RoomIsolation ==
    [][\A c \in Conns :
         /\ (Accepted(c) /\ handlers'[c]) =>
               (OthersUntouched(params'[c].token) /\ OnlyToToken(params'[c].token))
         /\ (Accepted(c) /\ ~handlers'[c]) =>
               (rooms' = rooms /\ \A i \in DOMAIN sent' : sent'[i].to = c)
         /\ (CloseEvent(c) \/ ErrorEvent(c)) =>
               (OthersUntouched(params[c].token) /\ OnlyToToken(params[c].token))
         /\ (Routed /\ \E raw \in RawFrames : Message(c, raw)) =>
               /\ OthersUntouched(params[c].token)
               /\ OnlyToToken(params[c].token)
               /\ \A i \in DOMAIN sent' :
                    sent'[i].frame.type = "signal" =>
                       /\ params[sent'[i].to].role # params[c].role
                       /\ params[sent'[i].to].role \in Roles]_vars

\* Two rooms, each with an open connection, and an event of the abc room has just
\* been told to the abc connection only.
C19_Witness ==
    \E a \in Conns, x \in Conns, b \in Conns :
        /\ AdmittedFor(a, "abc", "desktop") /\ Open(a) /\ rooms["abc"].desktop = a
        /\ AdmittedFor(x, "xyz", "web") /\ Open(x) /\ rooms["xyz"].web = x
        /\ AdmittedFor(b, "abc", "web") /\ readyState[b] = "CLOSED"
        /\ sent = <<[to |-> a, frame |-> StatusFrame(TRUE, FALSE)]>>

\* ------------------------------------------------------------------ C20
\* C20: a signal is forwarded to the peer only when its sender is the connection
\* held in its own (T,R) slot; a frame from a connection that was evicted and whose
\* close event has not been handled yet is not forwarded.
C20_OnlyOccupantRelays ==
    [][\A c \in Conns, raw \in {RawSignal1, RawSignal2} :
         (Routed /\ Message(c, raw)
             /\ \E i \in DOMAIN sent' : sent'[i].frame.type = "signal")
         => rooms[params[c].token][params[c].role] = c]_vars

====
